---- MODULE Spec2Model ----
(***************************************************************************)
(* Two tutorial programs built on PySyft:                                  *)
(*                                                                         *)
(*   - "SplitNN Introduction": a two-segment network, bottom segment at    *)
(*     alice, top segment at bob, trained through activation / activation  *)
(*     gradient hand-off (specification Spec);                             *)
(*   - "Part 12 bis - Encrypted Training on MNIST": data and model are     *)
(*     fixed-precision encoded and additively secret shared between        *)
(*     worker1 and worker2 (specification SpecEnc for the program,         *)
(*     SpecShare for the arithmetic of one shared value).                  *)
(*                                                                         *)
(* Tensor VALUES of the SplitNN program are terms over uninterpreted       *)
(* layer functions: a tagged tuple <<tag, arguments...>>.  Two terms are   *)
(* equal exactly when they denote the same computation on the same         *)
(* operands, which is what the program's data flow decides; the floating   *)
(* point arithmetic of the layers themselves is torch's.                   *)
(***************************************************************************)
EXTENDS Integers, Sequences, FiniteSets, TLC

(***************************************************************************)
(* Bounds of the model.                                                    *)
(***************************************************************************)
MaxEpochs == 2          \* epochs run (the notebook runs 15)
MaxBatches == 2         \* len(trainloader) (the notebook has 938)
MaxPixel == 2           \* distinct image batches the loader can yield
MaxLabel == 1           \* labels are 0..MaxLabel (MNIST has 0..9)

(***************************************************************************)
(* Workers of the SplitNN program.                                         *)
(***************************************************************************)
Me == "me"
Alice == "alice"
Bob == "bob"
SplitWorkers == {Me, Alice, Bob}

(***************************************************************************)
(* Terms.                                                                  *)
(***************************************************************************)
None == <<"none">>
Zero == <<"zero">>
lr == <<"lr", 3, 100>>

Fwd(i, p, x) == <<"fwd", i, p, x>>
Nll(out, t) == <<"nll", out, t>>
NllGrad(out, t) == <<"dnll", out, t>>
VjpW(i, p, x, g) == <<"vjp_w", i, p, x, g>>
VjpIn(i, p, x, g) == <<"vjp_in", i, p, x, g>>
Acc(g, new) == IF g = None \/ g = Zero THEN new ELSE <<"sum", g, new>>
Sgd(p, g) == IF g = None THEN p ELSE <<"sgd", p, g, lr>>
Theta(i, n) == <<"theta", i, n>>

\* A tensor: its value, its autograd node, the worker it lives at, its .grad
Tensor(v, f, w) == [val |-> v, fn |-> f, at |-> w, grad |-> None]
NoTensor == Tensor(None, "none", "nowhere")

Detach(t) == [t EXCEPT !.fn = "none", !.grad = None]
Move(t, w) == [t EXCEPT !.at = w]
RequiresGrad(t) == [t EXCEPT !.fn = IF @ = "none" THEN "leaf" ELSE @]
Send(t, w) == [t EXCEPT !.at = w]
Copy(g, w) == Tensor(g, "none", w)

\* Variables of the SplitNN program.  pc is the statement about to run; mi and
\* oi index the loops over models and optimizers; modelLoc[i] is
\* models[i].location; params[i] names the current parameters of segment i
\* (Theta(i, n): after n updates) and grad[i] is their accumulated .grad; the
\* tensors are the program's variables of the same name.  History variables:
\* old (the parameters train() was entered with), defn (the term the current
\* parameters were assigned from), wire (every tensor moved between workers
\* since the current loop iteration began) and trace (the statements of the
\* current train() call, in the order they ran).
VARIABLES pc, mi, oi, epoch, batch, modelLoc, params, grad, images, labels,
          a, remote_a, pred, loss, grad_a, running_loss,
          old, defn, wire, trace

splitVars == <<pc, mi, oi, epoch, batch, modelLoc, params, grad, images, labels,
               a, remote_a, pred, loss, grad_a, running_loss,
               old, defn, wire, trace>>

\* Variables of the encrypted-training program.  store[w] is the memory of
\* party w; private_loader[s] is the length of the private loader of split s;
\* provided counts the requests the crypto provider served.  History
\* variables: decrypted (every .get() result, in order) and steps (the
\* optimizer steps taken).
VARIABLES encPc, log_interval, split, batch_idx, store, private_loader,
          epochE, provided, decrypted, steps

encVars == <<encPc, log_interval, split, batch_idx, store, private_loader,
             epochE, provided, decrypted, steps>>

\* Variables of one shared value: plaintexts, shares, decoded results
VARIABLES shPc, plainA, plainB, sharesA, sharesB, sharesC, gotA, gotC

shareVars == <<shPc, plainA, plainB, sharesA, sharesB, sharesC, gotA, gotC>>

vars == <<splitVars, encVars, shareVars>>

(***************************************************************************)
(* Fixed precision and additive secret sharing.                            *)
(***************************************************************************)
RingSize == 16          \* size of the ring the shares live in
MaxNum == 9             \* plaintexts are n/1000 and n/10000, |n| <= MaxNum
MaxAddend == 1          \* second operand of an addition: n/1000, |n| <= MaxAddend

Ring == 0 .. RingSize - 1

\* Faulty variant: Arguments.precision_fractional set one digit short
precision_fractional_short == 3 - 1

\* args.precision_fractional
precision_fractional == 3

\* n_workers of connect_to_workers(n_workers=2)
n_workers == 2

WorkerNames == <<"worker1", "worker2", "worker3">>

\* Faulty variant: a single data worker
workers_single == <<"worker1">>

\* workers = connect_to_workers(n_workers=2)
workers == SubSeq(WorkerNames, 1, n_workers)

\* crypto_provider = connect_to_crypto_provider()
crypto_provider == "crypto_provider"

RECURSIVE Pow(_, _)
Pow(b, e) == IF e = 0 THEN 1 ELSE b * Pow(b, e - 1)

\* A decimal plaintext num/den
Dec(n, d) == [num |-> n, den |-> d]
DecEq(x, y) == x.num * y.den = y.num * x.den
DecAdd(x, y) == Dec(x.num * y.den + y.num * x.den, x.den * y.den)
NoDec == Dec(0, 0)

Decimals == {Dec(n, d) : n \in -MaxNum .. MaxNum, d \in {1000, 10000}}
Addends == {Dec(n, 1000) : n \in -MaxAddend .. MaxAddend}

\* truncation toward zero, as .long() does
Trunc(n, d) == IF n >= 0 THEN n \div d ELSE -((-n) \div d)

\* tensor.fix_precision(precision_fractional=p): scale by 10^p, truncate,
\* store in the ring
FixPrecision(v, p) == Trunc(v.num * Pow(10, p), v.den) % RingSize

\* the signed integer a ring element stands for
Centre(e) == IF e > (RingSize - 1) \div 2 THEN e - RingSize ELSE e

\* tensor.float_precision(): back to a decimal
FloatPrecision(e, p) == Dec(Centre(e), Pow(10, p))

RECURSIVE SumShares(_, _)
SumShares(sh, k) == IF k = 0 THEN 0 ELSE sh[k] + SumShares(sh, k - 1)

\* .share(*owners): the first n-1 owners get random ring elements rs, the
\* last one the secret minus their sum
MakeShares(e, owners, rs) ==
  [j \in 1 .. Len(owners) |->
     IF j < Len(owners) THEN rs[j]
     ELSE (e - SumShares(rs, Len(owners) - 1)) % RingSize]

Randomness(owners) == [1 .. Len(owners) - 1 -> Ring]

\* .get() of a shared tensor: the sum of all shares in the ring
Reconstruct(sh) == SumShares(sh, Len(sh)) % RingSize

\* x + y on two shared tensors: each owner adds its two shares
AddShares(x, y) == [j \in 1 .. Len(x) |-> (x[j] + y[j]) % RingSize]

\* Faulty variant: .share(*workers, crypto_provider): the provider passed as an owner
share_owners_with_provider == Append(workers, crypto_provider)

\* .share(*workers, crypto_provider=crypto_provider, requires_grad=True)
share_owners == workers

\* secret_share(tensor)
secret_share(v, rs) ==
  MakeShares(FixPrecision(v, precision_fractional), share_owners, rs)

\* loss.get().float_precision()
get_float_precision(sh) == FloatPrecision(Reconstruct(sh), precision_fractional)

ShareIdle ==
  /\ shPc = "idle"
  /\ plainA = NoDec
  /\ plainB = NoDec
  /\ sharesA = <<>>
  /\ sharesB = <<>>
  /\ sharesC = <<>>
  /\ gotA = NoDec
  /\ gotC = NoDec

ShareInit ==
  /\ shPc = "start"
  /\ plainA \in Decimals
  /\ plainB = NoDec
  /\ sharesA = <<>>
  /\ sharesB = <<>>
  /\ sharesC = <<>>
  /\ gotA = NoDec
  /\ gotC = NoDec

\* a = secret_share(plainA)
ShareA ==
  /\ shPc = "start"
  /\ \E rs \in Randomness(share_owners) : sharesA' = secret_share(plainA, rs)
  /\ shPc' = "sharedA"
  /\ UNCHANGED <<plainA, plainB, sharesB, sharesC, gotA, gotC>>
  /\ UNCHANGED <<splitVars, encVars>>

\* a.get().float_precision()
GetA ==
  /\ shPc = "sharedA"
  /\ gotA' = get_float_precision(sharesA)
  /\ shPc' = "gotA"
  /\ UNCHANGED <<plainA, plainB, sharesA, sharesB, sharesC, gotC>>
  /\ UNCHANGED <<splitVars, encVars>>

\* b = secret_share(plainB)
ShareB ==
  /\ shPc = "sharedA"
  /\ \E v \in Addends :
       \E rs \in Randomness(share_owners) :
         /\ plainB' = v
         /\ sharesB' = secret_share(v, rs)
  /\ shPc' = "sharedB"
  /\ UNCHANGED <<plainA, sharesA, sharesC, gotA, gotC>>
  /\ UNCHANGED <<splitVars, encVars>>

\* c = a + b
AddAB ==
  /\ shPc = "sharedB"
  /\ sharesC' = AddShares(sharesA, sharesB)
  /\ shPc' = "added"
  /\ UNCHANGED <<plainA, plainB, sharesA, sharesB, gotA, gotC>>
  /\ UNCHANGED <<splitVars, encVars>>

\* c.get().float_precision()
GetC ==
  /\ shPc = "added"
  /\ gotC' = get_float_precision(sharesC)
  /\ shPc' = "gotC"
  /\ UNCHANGED <<plainA, plainB, sharesA, sharesB, sharesC, gotA>>
  /\ UNCHANGED <<splitVars, encVars>>

ShareNext ==
  \/ ShareA
  \/ GetA
  \/ ShareB
  \/ AddAB
  \/ GetC

(***************************************************************************)
(* The encrypted-training program.                                         *)
(***************************************************************************)
MaxLoader == 3          \* len(train_loader), len(test_loader)
MaxPrivate == 2         \* n_train_items / batch_size, n_test_items / test_batch_size
MaxLogInterval == 2     \* args.log_interval is drawn from 1 .. MaxLogInterval

AllParties == {Me, crypto_provider} \cup {WorkerNames[j] : j \in 1 .. Len(WorkerNames)}

\* An object in a worker's memory: tensor k of split s, batch i, held in some
\* form ("plain", "pointer", or share number n); v is the content of a
\* plaintext.
Obj(k, s, i, form, n, v) == [k |-> k, s |-> s, i |-> i, form |-> form, n |-> n, v |-> v]
Plain(k, s, i, v) == Obj(k, s, i, "plain", 0, v)

\* tensor.share(*owners): share j goes to owners[j]; the caller keeps a pointer
ShareTo(st, k, s, i, owners) ==
  [w \in AllParties |->
     st[w]
       \cup {Obj(k, s, i, "share", j, 0) : j \in {j \in 1 .. Len(owners) : owners[j] = w}}
       \cup (IF w = Me THEN {Obj(k, s, i, "pointer", 0, 0)} ELSE {})]

\* an operation on a shared tensor: every holder computes on its own share
ShareWise(st, k, s, i, fromK, fromS, fromI) ==
  [w \in AllParties |->
     st[w]
       \cup {Obj(k, s, i, "share", o.n, 0) :
               o \in {o \in st[w] : o.k = fromK /\ o.s = fromS /\ o.i = fromI
                                     /\ o.form = "share"}}
       \cup (IF w = Me THEN {Obj(k, s, i, "pointer", 0, 0)} ELSE {})]

\* tensor.get(): the shares leave their holders, the plaintext is at the caller
GetTo(st, k, s, i) ==
  [w \in AllParties |->
     {o \in st[w] : ~(o.k = k /\ o.s = s /\ o.i = i)}
       \cup (IF w = Me THEN {Plain(k, s, i, 0)} ELSE {})]

EncIdle ==
  /\ encPc = "idle"
  /\ log_interval = 1
  /\ split = "train"
  /\ batch_idx = 0
  /\ store = [w \in AllParties |-> {}]
  /\ private_loader = [s \in {"train", "test"} |-> 0]
  /\ epochE = 0
  /\ provided = 0
  /\ decrypted = <<>>
  /\ steps = 0

EncInit ==
  /\ encPc = "make_loader"
  /\ log_interval \in 1 .. MaxLogInterval
  /\ split = "train"
  /\ batch_idx = 0
  /\ store = [w \in AllParties |-> {}]
  /\ private_loader = [s \in {"train", "test"} |-> 0]
  /\ epochE = 0
  /\ provided = 0
  /\ decrypted = <<>>
  /\ steps = 0

InPreparation ==
  encPc \in {"make_loader", "next_batch", "share_data", "share_target",
             "return_loaders"}

\* train_loader / test_loader = DataLoader(datasets.MNIST('../data', ...))
MakeLoader ==
  /\ encPc = "make_loader"
  /\ store' = [store EXCEPT ![Me] = @ \cup {Plain("dataset", split, 0, 0)}]
  /\ batch_idx' = 0
  /\ encPc' = "next_batch"
  /\ UNCHANGED <<log_interval, split, private_loader, epochE, provided,
                 decrypted, steps>>
  /\ UNCHANGED <<splitVars, shareVars>>

\* for i, (data, target) in enumerate(loader) if i < n_items / batch_size
NextBatch ==
  /\ encPc = "next_batch"
  /\ batch_idx < MaxLoader
  /\ \E v \in 1 .. MaxPixel, c \in 0 .. MaxLabel :
       store' = [store EXCEPT ![Me] =
                   {o \in @ : ~(o.form = "plain" /\ o.k \in {"data", "target"})}
                     \cup {Plain("data", split, batch_idx, v),
                           Plain("target", split, batch_idx, c)}]
  /\ IF batch_idx < MaxPrivate
       THEN encPc' = "share_data" /\ batch_idx' = batch_idx
       ELSE encPc' = "next_batch" /\ batch_idx' = batch_idx + 1
  /\ UNCHANGED <<log_interval, split, private_loader, epochE, provided,
                 decrypted, steps>>
  /\ UNCHANGED <<splitVars, shareVars>>

\* secret_share(data)
ShareData ==
  /\ encPc = "share_data"
  /\ store' = ShareTo(store, "data", split, batch_idx, share_owners)
  /\ encPc' = "share_target"
  /\ UNCHANGED <<log_interval, split, batch_idx, private_loader, epochE,
                 provided, decrypted, steps>>
  /\ UNCHANGED <<splitVars, shareVars>>

\* secret_share(one_hot_of(target)) / secret_share(target.float())
ShareTarget ==
  /\ encPc = "share_target"
  /\ store' = ShareTo(store, "target", split, batch_idx, share_owners)
  /\ private_loader' = [private_loader EXCEPT ![split] = @ + 1]
  /\ batch_idx' = batch_idx + 1
  /\ encPc' = "next_batch"
  /\ UNCHANGED <<log_interval, split, epochE, provided, decrypted, steps>>
  /\ UNCHANGED <<splitVars, shareVars>>

\* the comprehension ends; the next loader is built, or the function returns
EndLoader ==
  /\ encPc = "next_batch"
  /\ batch_idx = MaxLoader
  /\ store' = [store EXCEPT ![Me] =
                 {o \in @ : ~(o.form = "plain" /\ o.k \in {"data", "target"})}]
  /\ split' = IF split = "train" THEN "test" ELSE split
  /\ encPc' = IF split = "train" THEN "make_loader" ELSE "return_loaders"
  /\ UNCHANGED <<log_interval, batch_idx, private_loader, epochE, provided,
                 decrypted, steps>>
  /\ UNCHANGED <<splitVars, shareVars>>

\* return private_train_loader, private_test_loader
ReturnLoaders ==
  /\ encPc = "return_loaders"
  /\ store' = [store EXCEPT ![Me] = {o \in @ : o.k # "dataset"}]
  /\ encPc' = "make_model"
  /\ UNCHANGED <<log_interval, split, batch_idx, private_loader, epochE,
                 provided, decrypted, steps>>
  /\ UNCHANGED <<splitVars, shareVars>>

\* model = Net()
MakeModel ==
  /\ encPc = "make_model"
  /\ store' = [store EXCEPT ![Me] = @ \cup {Plain("param", "model", 0, 0)}]
  /\ encPc' = "share_model"
  /\ UNCHANGED <<log_interval, split, batch_idx, private_loader, epochE,
                 provided, decrypted, steps>>
  /\ UNCHANGED <<splitVars, shareVars>>

\* model = model.fix_precision().share(*workers, crypto_provider=..., ...)
ShareModel ==
  /\ encPc = "share_model"
  /\ store' = ShareTo([store EXCEPT ![Me] = {o \in @ : o.k # "param"}],
                      "param", "model", 0, workers)
  /\ encPc' = "make_optimizer"
  /\ UNCHANGED <<log_interval, split, batch_idx, private_loader, epochE,
                 provided, decrypted, steps>>
  /\ UNCHANGED <<splitVars, shareVars>>

\* optimizer = optim.SGD(...); optimizer.fix_precision(); first epoch
MakeOptimizer ==
  /\ encPc = "make_optimizer"
  /\ epochE' = 1
  /\ batch_idx' = 0
  /\ encPc' = "train_loop"
  /\ UNCHANGED <<log_interval, split, store, private_loader, provided,
                 decrypted, steps>>
  /\ UNCHANGED <<splitVars, shareVars>>

\* for batch_idx, (data, target) in enumerate(private_train_loader)
TrainNext ==
  /\ encPc = "train_loop"
  /\ batch_idx < private_loader["train"]
  /\ encPc' = "zero_grad"
  /\ UNCHANGED <<log_interval, split, batch_idx, store, private_loader,
                 epochE, provided, decrypted, steps>>
  /\ UNCHANGED <<splitVars, shareVars>>

\* optimizer.zero_grad()
EncZeroGrad ==
  /\ encPc = "zero_grad"
  /\ store' = [w \in AllParties |-> {o \in store[w] : o.k # "grad"}]
  /\ encPc' = "forward"
  /\ UNCHANGED <<log_interval, split, batch_idx, private_loader, epochE,
                 provided, decrypted, steps>>
  /\ UNCHANGED <<splitVars, shareVars>>

\* output = model(data)
EncForward ==
  /\ encPc = "forward"
  /\ store' = ShareWise(store, "output", "train", 0, "data", "train", batch_idx)
  /\ provided' = provided + 1
  /\ encPc' = "loss"
  /\ UNCHANGED <<log_interval, split, batch_idx, private_loader, epochE,
                 decrypted, steps>>
  /\ UNCHANGED <<splitVars, shareVars>>

\* loss = ((output - target)**2).sum().refresh()/batch_size
EncLoss ==
  /\ encPc = "loss"
  /\ store' = ShareWise(store, "loss", "train", 0, "output", "train", 0)
  /\ provided' = provided + 1
  /\ encPc' = "backward"
  /\ UNCHANGED <<log_interval, split, batch_idx, private_loader, epochE,
                 decrypted, steps>>
  /\ UNCHANGED <<splitVars, shareVars>>

\* loss.backward()
EncBackward ==
  /\ encPc = "backward"
  /\ store' = ShareWise(store, "grad", "model", 0, "param", "model", 0)
  /\ provided' = provided + 1
  /\ encPc' = "step"
  /\ UNCHANGED <<log_interval, split, batch_idx, private_loader, epochE,
                 decrypted, steps>>
  /\ UNCHANGED <<splitVars, shareVars>>

\* optimizer.step()
EncStep ==
  /\ encPc = "step"
  /\ store' = ShareWise(store, "param", "model", 0, "grad", "model", 0)
  /\ steps' = steps + 1
  /\ encPc' = "log"
  /\ UNCHANGED <<log_interval, split, batch_idx, private_loader, epochE,
                 provided, decrypted>>
  /\ UNCHANGED <<splitVars, shareVars>>

\* Faulty variant: the loss is fetched at every batch
ShouldLogAlways == TRUE

\* if batch_idx % args.log_interval == 0
ShouldLog == batch_idx % log_interval = 0

\* loss = loss.get().float_precision(); print(...)
EncLog ==
  /\ encPc = "log"
  /\ IF ShouldLog
       THEN /\ store' = GetTo(store, "loss", "train", 0)
            /\ decrypted' = Append(decrypted,
                 [k |-> "loss", epoch |-> epochE, batch_idx |-> batch_idx,
                  steps |-> steps])
       ELSE UNCHANGED <<store, decrypted>>
  /\ batch_idx' = batch_idx + 1
  /\ encPc' = "train_loop"
  /\ UNCHANGED <<log_interval, split, private_loader, epochE, provided, steps>>
  /\ UNCHANGED <<splitVars, shareVars>>

\* train() returns; test(): model.eval(); correct = 0
TrainEnd ==
  /\ encPc = "train_loop"
  /\ batch_idx = private_loader["train"]
  /\ store' = [w \in AllParties |-> {o \in store[w] : o.k # "correct"}]
  /\ batch_idx' = 0
  /\ encPc' = "test_loop"
  /\ UNCHANGED <<log_interval, split, private_loader, epochE, provided,
                 decrypted, steps>>
  /\ UNCHANGED <<splitVars, shareVars>>

\* for data, target in private_test_loader: output = model(data)
TestForward ==
  /\ encPc = "test_loop"
  /\ batch_idx < private_loader["test"]
  /\ store' = ShareWise(store, "output", "test", 0, "data", "test", batch_idx)
  /\ provided' = provided + 1
  /\ encPc' = "count"
  /\ UNCHANGED <<log_interval, split, batch_idx, private_loader, epochE,
                 decrypted, steps>>
  /\ UNCHANGED <<splitVars, shareVars>>

\* pred = output.argmax(dim=1); correct += pred.eq(target.view_as(pred)).sum()
TestCount ==
  /\ encPc = "count"
  /\ store' = ShareWise(ShareWise(store, "pred", "test", 0, "output", "test", 0),
                        "correct", "test", 0, "pred", "test", 0)
  /\ provided' = provided + 1
  /\ batch_idx' = batch_idx + 1
  /\ encPc' = "test_loop"
  /\ UNCHANGED <<log_interval, split, private_loader, epochE, decrypted, steps>>
  /\ UNCHANGED <<splitVars, shareVars>>

\* correct = correct.get().float_precision(); print(...); next epoch
TestEnd ==
  /\ encPc = "test_loop"
  /\ batch_idx = private_loader["test"]
  /\ store' = GetTo(store, "correct", "test", 0)
  /\ decrypted' = Append(decrypted,
       [k |-> "correct", epoch |-> epochE, batch_idx |-> batch_idx,
        steps |-> steps])
  /\ epochE' = epochE + 1
  /\ batch_idx' = 0
  /\ encPc' = IF epochE < MaxEpochs THEN "train_loop" ELSE "done"
  /\ UNCHANGED <<log_interval, split, private_loader, provided, steps>>
  /\ UNCHANGED <<splitVars, shareVars>>

EncNext ==
  \/ MakeLoader
  \/ NextBatch
  \/ ShareData
  \/ ShareTarget
  \/ EndLoader
  \/ ReturnLoaders
  \/ MakeModel
  \/ ShareModel
  \/ MakeOptimizer
  \/ TrainNext
  \/ EncZeroGrad
  \/ EncForward
  \/ EncLoss
  \/ EncBackward
  \/ EncStep
  \/ EncLog
  \/ TrainEnd
  \/ TestForward
  \/ TestCount
  \/ TestEnd

(***************************************************************************)
(* The SplitNN program.                                                    *)
(***************************************************************************)
Segments == 0 .. 1

\* Faulty variant: both segments sent to alice
model_locations_same == (0 :> Alice) @@ (1 :> Alice)

\* model_locations = [alice, bob]
model_locations == (0 :> Alice) @@ (1 :> Bob)

\* Faulty variant: labels.send(alice)
LabelsLocationAlice == Alice

\* images.send(alice), labels.send(bob)
ImagesLocation == Alice
LabelsLocation == Bob

\* Faulty variant: opt.step() written before a.backward(grad_a)
TrainProgramStepEarly ==
  <<"zero_grad", "forward0", "move_a", "forward1", "loss", "backward1",
    "move_grad", "step", "backward0", "get_loss">>

\* The statements of train(), in program order.
TrainProgram ==
  <<"zero_grad", "forward0", "move_a", "forward1", "loss", "backward1",
    "move_grad", "backward0", "step", "get_loss">>

After(p) ==
  TrainProgram[(CHOOSE k \in 1 .. Len(TrainProgram) : TrainProgram[k] = p) + 1]

InTrain == \E k \in 1 .. Len(TrainProgram) : TrainProgram[k] = pc

Init ==
  /\ EncIdle
  /\ ShareIdle
  /\ pc = "send_models"
  /\ mi = 0
  /\ oi = 0
  /\ epoch = 0
  /\ batch = 0
  /\ modelLoc = [i \in Segments |-> Me]
  /\ params = [i \in Segments |-> Theta(i, 0)]
  /\ grad = [i \in Segments |-> None]
  /\ images = NoTensor
  /\ labels = NoTensor
  /\ a = NoTensor
  /\ remote_a = NoTensor
  /\ pred = NoTensor
  /\ loss = NoTensor
  /\ grad_a = NoTensor
  /\ running_loss = <<>>
  /\ old = [i \in Segments |-> Theta(i, 0)]
  /\ defn = [i \in Segments |-> <<"init">>]
  /\ wire = <<>>
  /\ trace = <<>>

\* for model, location in zip(models, model_locations): model.send(location)
SendModel ==
  /\ pc = "send_models"
  /\ UNCHANGED <<encVars, shareVars>>
  /\ modelLoc' = [modelLoc EXCEPT ![mi] = model_locations[mi]]
  /\ wire' = Append(wire, [src |-> modelLoc[mi], dst |-> model_locations[mi],
                           t |-> Tensor(params[mi], "leaf", model_locations[mi])])
  /\ mi' = mi + 1
  /\ pc' = IF mi + 1 = 2 THEN "epoch" ELSE pc
  /\ UNCHANGED <<oi, epoch, batch, params, grad, images, labels, a, remote_a,
                 pred, loss, grad_a, running_loss, old, defn, trace>>

\* for i in range(epochs): running_loss = 0
BeginEpoch ==
  /\ pc = "epoch"
  /\ UNCHANGED <<encVars, shareVars>>
  /\ epoch < MaxEpochs
  /\ running_loss' = <<>>
  /\ batch' = 0
  /\ pc' = "load"
  /\ UNCHANGED <<mi, oi, epoch, modelLoc, params, grad, images, labels, a,
                 remote_a, pred, loss, grad_a, old, defn, wire, trace>>

\* for images, labels in trainloader: the loader yields the batch locally
LoadBatch ==
  /\ pc = "load"
  /\ UNCHANGED <<encVars, shareVars>>
  /\ batch < MaxBatches
  /\ \E k \in 1 .. MaxPixel, c \in 0 .. MaxLabel :
       /\ images' = Tensor(<<"image", k>>, "none", Me)
       /\ labels' = Tensor(<<"label", c>>, "none", Me)
  /\ wire' = <<>>
  /\ trace' = <<>>
  /\ pc' = "send_images"
  /\ UNCHANGED <<mi, oi, epoch, batch, modelLoc, params, grad, a, remote_a,
                 pred, loss, grad_a, running_loss, old, defn>>

\* images = images.send(alice)
SendImages ==
  /\ pc = "send_images"
  /\ UNCHANGED <<encVars, shareVars>>
  /\ images' = Send(images, ImagesLocation)
  /\ wire' = Append(wire, [src |-> images.at, dst |-> ImagesLocation, t |-> images])
  /\ pc' = "view"
  /\ UNCHANGED <<mi, oi, epoch, batch, modelLoc, params, grad, labels, a,
                 remote_a, pred, loss, grad_a, running_loss, old, defn, trace>>

\* images = images.view(images.shape[0], -1), executed where images lives
ViewImages ==
  /\ pc = "view"
  /\ UNCHANGED <<encVars, shareVars>>
  /\ images' = [images EXCEPT !.val = <<"view", @>>]
  /\ pc' = "send_labels"
  /\ UNCHANGED <<mi, oi, epoch, batch, modelLoc, params, grad, labels, a,
                 remote_a, pred, loss, grad_a, running_loss, old, defn, wire,
                 trace>>

\* labels = labels.send(bob); then train(images, labels, models, optimizers)
SendLabels ==
  /\ pc = "send_labels"
  /\ UNCHANGED <<encVars, shareVars>>
  /\ labels' = Send(labels, LabelsLocation)
  /\ wire' = Append(wire, [src |-> labels.at, dst |-> LabelsLocation, t |-> labels])
  /\ old' = params
  /\ oi' = 0
  /\ pc' = TrainProgram[1]
  /\ UNCHANGED <<mi, epoch, batch, modelLoc, params, grad, images, a, remote_a,
                 pred, loss, grad_a, running_loss, defn, trace>>

\* Faulty variant: step 1 leaves the previous gradients in place
ZeroGradSkipped ==
  /\ pc = "zero_grad"
  /\ UNCHANGED <<encVars, shareVars>>
  /\ trace' = Append(trace, <<"zero_grad", oi>>)
  /\ oi' = IF oi + 1 = 2 THEN 0 ELSE oi + 1
  /\ pc' = IF oi + 1 = 2 THEN After(pc) ELSE pc
  /\ UNCHANGED <<mi, epoch, batch, modelLoc, params, grad, images, labels, a,
                 remote_a, pred, loss, grad_a, running_loss, old, defn, wire>>

\* 1) for opt in optimizers: opt.zero_grad()
ZeroGrad ==
  /\ pc = "zero_grad"
  /\ UNCHANGED <<encVars, shareVars>>
  /\ grad' = [grad EXCEPT ![oi] = IF @ = None THEN None ELSE Zero]
  /\ trace' = Append(trace, <<"zero_grad", oi>>)
  /\ oi' = IF oi + 1 = 2 THEN 0 ELSE oi + 1
  /\ pc' = IF oi + 1 = 2 THEN After(pc) ELSE pc
  /\ UNCHANGED <<mi, epoch, batch, modelLoc, params, images, labels, a,
                 remote_a, pred, loss, grad_a, running_loss, old, defn, wire>>

\* 2) a = models[0](x)
Forward0 ==
  /\ pc = "forward0"
  /\ UNCHANGED <<encVars, shareVars>>
  /\ images.at = modelLoc[0]
  /\ a' = Tensor(Fwd(0, params[0], images.val), "bottom", modelLoc[0])
  /\ trace' = Append(trace, <<"forward", 0>>)
  /\ pc' = After(pc)
  /\ UNCHANGED <<mi, oi, epoch, batch, modelLoc, params, grad, images, labels,
                 remote_a, pred, loss, grad_a, running_loss, old, defn, wire>>

\* Faulty variant: step 3 moves the input x itself
RawInputSignal == images

\* a.detach(): what step 3 hands to the next segment
ActivationSignal == Detach(a)

\* 3) remote_a = a.detach().move(models[1].location).requires_grad_()
MoveActivation ==
  /\ pc = "move_a"
  /\ UNCHANGED <<encVars, shareVars>>
  /\ remote_a' = RequiresGrad(Move(ActivationSignal, modelLoc[1]))
  /\ wire' = Append(wire, [src |-> ActivationSignal.at, dst |-> modelLoc[1],
                           t |-> ActivationSignal])
  /\ trace' = Append(trace, <<"move_a", 0>>)
  /\ pc' = After(pc)
  /\ UNCHANGED <<mi, oi, epoch, batch, modelLoc, params, grad, images, labels,
                 a, pred, loss, grad_a, running_loss, old, defn>>

\* 4) pred = models[1](remote_a)
Forward1 ==
  /\ pc = "forward1"
  /\ UNCHANGED <<encVars, shareVars>>
  /\ remote_a.at = modelLoc[1]
  /\ pred' = Tensor(Fwd(1, params[1], remote_a.val), "top", modelLoc[1])
  /\ trace' = Append(trace, <<"forward", 1>>)
  /\ pc' = After(pc)
  /\ UNCHANGED <<mi, oi, epoch, batch, modelLoc, params, grad, images, labels,
                 a, remote_a, loss, grad_a, running_loss, old, defn, wire>>

\* 5) criterion = nn.NLLLoss(); loss = criterion(pred, target)
Loss ==
  /\ pc = "loss"
  /\ UNCHANGED <<encVars, shareVars>>
  /\ pred.at = labels.at
  /\ loss' = Tensor(Nll(pred.val, labels.val), "nll", pred.at)
  /\ trace' = Append(trace, <<"loss", 1>>)
  /\ pc' = After(pc)
  /\ UNCHANGED <<mi, oi, epoch, batch, modelLoc, params, grad, images, labels,
                 a, remote_a, pred, grad_a, running_loss, old, defn, wire>>

\* 6) loss.backward(): through the top segment, down to the leaves of the
\*    graph of loss.  remote_a is a leaf when it was detached; otherwise the
\*    pass goes on into the graph of a.
LossBackward ==
  /\ pc = "backward1"
  /\ UNCHANGED <<encVars, shareVars>>
  /\ loss.fn = "nll"
  /\ LET gout == NllGrad(pred.val, labels.val)
         gin == VjpIn(1, params[1], remote_a.val, gout)
     IN /\ grad' = [grad EXCEPT
                      ![1] = Acc(@, VjpW(1, params[1], remote_a.val, gout)),
                      ![0] = IF remote_a.fn = "bottom"
                               THEN Acc(@, VjpW(0, params[0], images.val, gin))
                               ELSE @]
        /\ remote_a' = IF remote_a.fn = "leaf"
                         THEN [remote_a EXCEPT !.grad = Acc(@, gin)]
                         ELSE remote_a
  /\ trace' = Append(trace, <<"backward", 1>>)
  /\ pc' = After(pc)
  /\ UNCHANGED <<mi, oi, epoch, batch, modelLoc, params, images, labels, a,
                 pred, loss, grad_a, running_loss, old, defn, wire>>

\* remote_a.grad.copy(): what step 7 hands back
GradSignal == Copy(remote_a.grad, remote_a.at)

\* 7) grad_a = remote_a.grad.copy().move(models[0].location)
MoveGrad ==
  /\ pc = "move_grad"
  /\ UNCHANGED <<encVars, shareVars>>
  /\ remote_a.grad # None
  /\ grad_a' = Move(GradSignal, modelLoc[0])
  /\ wire' = Append(wire, [src |-> GradSignal.at, dst |-> modelLoc[0],
                           t |-> GradSignal])
  /\ trace' = Append(trace, <<"move_grad", 1>>)
  /\ pc' = After(pc)
  /\ UNCHANGED <<mi, oi, epoch, batch, modelLoc, params, grad, images, labels,
                 a, remote_a, pred, loss, running_loss, old, defn>>

\* 8) a.backward(grad_a)
Backward0 ==
  /\ pc = "backward0"
  /\ UNCHANGED <<encVars, shareVars>>
  /\ a.fn = "bottom"
  /\ grad_a.at = a.at
  /\ grad' = [grad EXCEPT ![0] = Acc(@, VjpW(0, params[0], images.val, grad_a.val))]
  /\ trace' = Append(trace, <<"backward", 0>>)
  /\ oi' = 0
  /\ pc' = After(pc)
  /\ UNCHANGED <<mi, epoch, batch, modelLoc, params, images, labels, a,
                 remote_a, pred, loss, grad_a, running_loss, old, defn, wire>>

\* 9) for opt in optimizers: opt.step()
OptStep ==
  /\ pc = "step"
  /\ UNCHANGED <<encVars, shareVars>>
  /\ params' = [params EXCEPT ![oi] = IF Sgd(@, grad[oi]) = @ THEN @
                                       ELSE Theta(oi, @[3] + 1)]
  /\ defn' = [defn EXCEPT ![oi] = IF Sgd(params[oi], grad[oi]) = params[oi]
                                    THEN @ ELSE Sgd(params[oi], grad[oi])]
  /\ trace' = Append(trace, <<"step", oi>>)
  /\ oi' = IF oi + 1 = 2 THEN 0 ELSE oi + 1
  /\ pc' = IF oi + 1 = 2 THEN After(pc) ELSE pc
  /\ UNCHANGED <<mi, epoch, batch, modelLoc, grad, images, labels, a, remote_a,
                 pred, loss, grad_a, running_loss, old, wire>>

\* 10) return loss.detach().get()
ReturnLoss ==
  /\ pc = "get_loss"
  /\ UNCHANGED <<encVars, shareVars>>
  /\ loss' = Move(Detach(loss), Me)
  /\ wire' = Append(wire, [src |-> loss.at, dst |-> Me, t |-> Detach(loss)])
  /\ a' = NoTensor
  /\ remote_a' = NoTensor
  /\ pred' = NoTensor
  /\ grad_a' = NoTensor
  /\ pc' = "accumulate"
  /\ UNCHANGED <<mi, oi, epoch, batch, modelLoc, params, grad, images, labels,
                 running_loss, old, defn, trace>>

\* running_loss += loss
Accumulate ==
  /\ pc = "accumulate"
  /\ UNCHANGED <<encVars, shareVars>>
  /\ running_loss' = Append(running_loss, loss.val)
  /\ batch' = batch + 1
  /\ pc' = "load"
  /\ UNCHANGED <<mi, oi, epoch, modelLoc, params, grad, images, labels, a,
                 remote_a, pred, loss, grad_a, old, defn, wire, trace>>

\* else: print("Epoch {} - Training loss: {}"...), and the next epoch
EndEpoch ==
  /\ pc = "load"
  /\ UNCHANGED <<encVars, shareVars>>
  /\ batch = MaxBatches
  /\ epoch' = epoch + 1
  /\ pc' = IF epoch + 1 < MaxEpochs THEN "epoch" ELSE "done"
  /\ UNCHANGED <<mi, oi, batch, modelLoc, params, grad, images, labels, a,
                 remote_a, pred, loss, grad_a, running_loss, old, defn, wire,
                 trace>>

Next ==
  \/ SendModel
  \/ BeginEpoch
  \/ LoadBatch
  \/ SendImages
  \/ ViewImages
  \/ SendLabels
  \/ ZeroGrad
  \/ Forward0
  \/ MoveActivation
  \/ Forward1
  \/ Loss
  \/ LossBackward
  \/ MoveGrad
  \/ Backward0
  \/ OptStep
  \/ ReturnLoss
  \/ Accumulate
  \/ EndEpoch

Spec == Init /\ [][Next]_vars

SplitIdle ==
  /\ pc = "idle"
  /\ mi = 0
  /\ oi = 0
  /\ epoch = 0
  /\ batch = 0
  /\ modelLoc = [i \in Segments |-> Me]
  /\ params = [i \in Segments |-> Theta(i, 0)]
  /\ grad = [i \in Segments |-> None]
  /\ images = NoTensor
  /\ labels = NoTensor
  /\ a = NoTensor
  /\ remote_a = NoTensor
  /\ pred = NoTensor
  /\ loss = NoTensor
  /\ grad_a = NoTensor
  /\ running_loss = <<>>
  /\ old = [i \in Segments |-> Theta(i, 0)]
  /\ defn = [i \in Segments |-> <<"init">>]
  /\ wire = <<>>
  /\ trace = <<>>

\* The encrypted-training program alone
InitEnc ==
  /\ EncInit
  /\ SplitIdle
  /\ ShareIdle

SpecEnc == InitEnc /\ [][EncNext]_vars

\* One value fixed, shared, added and fetched back
InitShare ==
  /\ ShareInit
  /\ SplitIdle
  /\ EncIdle

SpecShare == InitShare /\ [][ShareNext]_vars

(***************************************************************************)
(* Properties of the SplitNN program (specification Spec).                 *)
(***************************************************************************)
StateTensors == <<images, labels, a, remote_a, pred, loss, grad_a>>

IsImage(v) == v[1] \in {"image", "view"}
IsLabel(v) == v[1] = "label"
IsParams(v) == v[1] \in {"theta", "sgd", "init"}
IsParamGrad(v) == v[1] \in {"vjp_w", "sum"}

\* One local SGD step on the unsplit composition top(bottom(x)): forward,
\* loss, back-propagation by the chain rule through top and then bottom.
UnsplitStep(p, x, t) ==
  LET h == Fwd(0, p[0], x)
      out == Fwd(1, p[1], h)
      gout == NllGrad(out, t)
      g1 == VjpW(1, p[1], h, gout)
      gh == VjpIn(1, p[1], h, gout)
      g0 == VjpW(0, p[0], x, gh)
  IN [loss |-> Nll(out, t), act |-> h, gact |-> gh,
      g |-> (0 :> g0) @@ (1 :> g1),
      new |-> (0 :> Sgd(p[0], g0)) @@ (1 :> Sgd(p[1], g1))]

\* C1: of the tensors that cross between alice and bob during an iteration
\* of the training loop, the ones going from alice to bob are the detached
\* output activation of the bottom segment on the current batch, the ones
\* going from bob to alice are the gradient of the loss with respect to that
\* received activation; nothing else (no image, label, parameter, parameter
\* gradient) crosses, in any step of any epoch.
C1_OnlyActivationSignalsCross ==
  \A k \in 1 .. Len(wire) :
    LET e == wire[k]
        r == UnsplitStep(old, images.val, labels.val)
    IN {e.src, e.dst} = {Alice, Bob} =>
         \/ /\ e.src = Alice
            /\ e.dst = Bob
            /\ e.t.fn = "none"
            /\ e.t.val = r.act
         \/ /\ e.src = Bob
            /\ e.dst = Alice
            /\ e.t.val = r.gact

C1_Witness ==
  /\ pc = "get_loss"
  /\ epoch = MaxEpochs - 1
  /\ batch = MaxBatches - 1
  /\ \E j, k \in 1 .. Len(wire) :
       /\ wire[j].src = Alice /\ wire[j].dst = Bob
       /\ wire[k].src = Bob /\ wire[k].dst = Alice

C5_ModelStaysDistributed ==
  /\ mi >= 1 => \A w \in SplitWorkers : ~(modelLoc[0] = w /\ modelLoc[1] = w)
  /\ mi = 2 => modelLoc[0] = Alice /\ modelLoc[1] = Bob
  /\ pc # "send_models" => mi = 2
  /\ \A k \in 1 .. Len(wire) :
       IsParams(wire[k].t.val) =>
         wire[k].src = Me /\ pc \in {"send_models", "epoch", "load"}

C5_Witness ==
  /\ pc = "done"
  /\ params[0] = Theta(0, MaxEpochs * MaxBatches)
  /\ params[1] = Theta(1, MaxEpochs * MaxBatches)
  /\ modelLoc[0] = Alice
  /\ modelLoc[1] = Bob

\* C6: when train() is about to return, the loss, the gradient accumulated
\* for each segment and the new parameters of each segment are those of one
\* local SGD step on the unsplit composition, taken from the parameters the
\* call started with on the same batch; the gradient of the bottom segment
\* is the chain-rule gradient of the end-to-end loss.
C6_SplitEqualsUnsplit ==
  LET r == UnsplitStep(old, images.val, labels.val)
  IN /\ pc = "get_loss" =>
          /\ loss.val = r.loss
          /\ \A i \in Segments :
               /\ grad[i] = r.g[i]
               /\ defn[i] = r.new[i]
               /\ params[i] = Theta(i, old[i][3] + 1)
     /\ (pc = "step" /\ oi = 0) => grad[0] = r.g[0]

C6_Witness ==
  /\ pc = "get_loss"
  /\ epoch = MaxEpochs - 1
  /\ batch = MaxBatches - 1
  /\ defn[0][1] = "sgd"
  /\ defn[0][3][1] = "vjp_w"
  /\ old[0] # Theta(0, 0)

\* C10: the statements of one train() call run in program order, one at a
\* time: zero_grad of both optimizers, bottom forward, move of the
\* activation, top forward, loss, loss.backward(), move of the activation
\* gradient, a.backward(grad_a), then the steps; each optimizer steps once
\* per call, and when it steps the gradient of its segment has been computed
\* and is the gradient of the current batch alone.
ExpectedTrace ==
  << <<"zero_grad", 0>>, <<"zero_grad", 1>>, <<"forward", 0>>, <<"move_a", 0>>,
     <<"forward", 1>>, <<"loss", 1>>, <<"backward", 1>>, <<"move_grad", 1>>,
     <<"backward", 0>>, <<"step", 0>>, <<"step", 1>> >>

C10_StrictSequence ==
  /\ Len(trace) <= Len(ExpectedTrace)
  /\ trace = SubSeq(ExpectedTrace, 1, Len(trace))
  /\ pc \in {"get_loss", "accumulate"} => trace = ExpectedTrace
  /\ pc \in {"send_images", "view", "send_labels"} => trace = <<>>
  /\ pc = "step" =>
       /\ a.val = Fwd(0, old[0], images.val)
       /\ pred.val = Fwd(1, old[1], a.val)
       /\ grad_a.val = VjpIn(1, old[1], a.val, NllGrad(pred.val, labels.val))
       /\ grad[0] = VjpW(0, old[0], images.val, grad_a.val)
       /\ grad[1] = VjpW(1, old[1], a.val, NllGrad(pred.val, labels.val))

C10_Witness ==
  /\ pc = "get_loss"
  /\ epoch = MaxEpochs - 1
  /\ batch = MaxBatches - 1
  /\ trace = ExpectedTrace

(***************************************************************************)
(* Properties of the encrypted-training program (specification SpecEnc).   *)
(***************************************************************************)
\* C2: while get_private_data_loaders runs, the local worker holds no
\* plaintext MNIST data: neither a dataset, nor an image batch, nor a label
\* batch.
C2_LocalNeverHoldsPlaintext ==
  InPreparation =>
    \A o \in store[Me] :
      ~(o.form = "plain" /\ o.k \in {"dataset", "data", "target"})

\* C3: every value fetched with .get() is either the batch loss of train,
\* fetched for a batch with batch_idx % log_interval = 0 after the
\* optimizer step of that batch, or the correct count of test, fetched once
\* all test batches are counted; from the sharing of the model on, the only
\* plaintexts at the local worker are those two.
C3_OnlyLossAndCountDecrypted ==
  /\ \A j \in 1 .. Len(decrypted) :
       LET e == decrypted[j]
       IN \/ /\ e.k = "loss"
             /\ e.batch_idx % log_interval = 0
             /\ e.steps = (e.epoch - 1) * private_loader["train"] + e.batch_idx + 1
          \/ /\ e.k = "correct"
             /\ e.batch_idx = private_loader["test"]
             /\ e.steps = e.epoch * private_loader["train"]
  /\ encPc \in {"make_optimizer", "train_loop", "zero_grad", "forward", "loss",
                "backward", "step", "log", "test_loop", "count", "done"} =>
       \A o \in store[Me] : o.form = "plain" => o.k \in {"loss", "correct"}

C3_Witness ==
  /\ encPc = "done"
  /\ log_interval = MaxLogInterval
  /\ steps = MaxEpochs * MaxPrivate
  /\ \E j, k \in 1 .. Len(decrypted) :
       /\ decrypted[j].k = "loss"
       /\ decrypted[k].k = "correct"
  /\ Len(decrypted) < MaxEpochs * (MaxPrivate + 1)

\* C7: every tensor that is secret shared has exactly one share at worker1,
\* exactly one at worker2 and none anywhere else; the crypto provider is
\* none of the data workers and its memory never holds a share of, or a
\* plaintext of, the data or the model.
SharedTensors ==
  {<<o.k, o.s, o.i>> : o \in {o \in UNION {store[w] : w \in AllParties} :
                                o.form = "share"}}

SharesAt(w, id) ==
  {o \in store[w] : o.form = "share" /\ <<o.k, o.s, o.i>> = id}

C7_OneSharePerWorker ==
  /\ \A id \in SharedTensors :
       \A w \in AllParties :
         Cardinality(SharesAt(w, id)) = IF w \in {"worker1", "worker2"} THEN 1 ELSE 0
  /\ \A j \in 1 .. Len(workers) : workers[j] # crypto_provider
  /\ store[crypto_provider] = {}

C7_Witness ==
  /\ encPc = "done"
  /\ provided > 0
  /\ \A k \in {"data", "target", "param"} :
       \E id \in SharedTensors :
         /\ id[1] = k
         /\ SharesAt("worker1", id) # {}
         /\ SharesAt("worker2", id) # {}

(***************************************************************************)
(* Properties of one shared value (specification SpecShare).               *)
(***************************************************************************)
\* C8: the share a worker holds right after a value was shared could have
\* come from any other plaintext: for every plaintext there is a choice of
\* the sharing's randomness that gives this worker the very same share.
C8_SingleViewIndependent ==
  shPc = "sharedA" =>
    \A j \in 1 .. Len(share_owners) :
      \A v \in Decimals :
        \E rs \in Randomness(share_owners) : secret_share(v, rs)[j] = sharesA[j]

C8_Witness ==
  /\ shPc = "sharedB"
  /\ ~DecEq(plainA, plainB)
  /\ FixPrecision(plainA, precision_fractional) # FixPrecision(plainB, precision_fractional)
  /\ sharesA[1] = sharesB[1]
  /\ Len(sharesA) = 2

RepresentableAt3(v) == (v.num * 1000) % v.den = 0
EncodingAt3(v) == (v.num * 1000) \div v.den
InRingRange(n) == -(RingSize \div 2) <= n /\ n <= (RingSize - 1) \div 2
Encodable(v) == RepresentableAt3(v) /\ InRingRange(EncodingAt3(v))

\* C9 (as amended): a plaintext with at most 3 fractional digits whose
\* encoding lies in the signed range of the ring comes back unchanged from
\* fix_precision, share, get, float_precision; the share-wise sum of two
\* shared tensors reconstructs to the sum of the two encodings modulo the
\* ring size, which decodes to the sum of the plaintexts provided that sum,
\* too, lies in the range of the ring.
C9_FixShareRoundTrip ==
  /\ (shPc = "gotA" /\ Encodable(plainA)) => DecEq(gotA, plainA)
  /\ (shPc \in {"added", "gotC"} /\ Encodable(plainA) /\ Encodable(plainB)) =>
       Reconstruct(sharesC) = (EncodingAt3(plainA) + EncodingAt3(plainB)) % RingSize
  /\ (/\ shPc = "gotC"
      /\ Encodable(plainA)
      /\ Encodable(plainB)
      /\ InRingRange(EncodingAt3(plainA) + EncodingAt3(plainB))) =>
       DecEq(gotC, DecAdd(plainA, plainB))

C9_Witness ==
  /\ shPc = "gotC"
  /\ Encodable(plainA)
  /\ Encodable(plainB)
  /\ plainA.num < -1
  /\ plainB.num > 0
  /\ sharesA[1] + sharesA[2] >= RingSize
  /\ DecEq(gotC, DecAdd(plainA, plainB))
  /\ gotA = NoDec

\* C9 (as stated): every plaintext with at most 3 fractional digits inside
\* the ring's range round-trips, and the share-wise sum of two such shared
\* tensors decodes to the sum of their plaintexts.
C9_AsStated ==
  /\ (shPc = "gotA" /\ Encodable(plainA)) => DecEq(gotA, plainA)
  /\ (shPc = "gotC" /\ Encodable(plainA) /\ Encodable(plainB)) =>
       DecEq(gotC, DecAdd(plainA, plainB))

====
